---- MODULE Spec2Model ----
(***************************************************************************)
(* A model of lax's '@' pattern expander (src/src/lib.rs) and of the host  *)
(* loop that runs the target program (src/src/main.rs).                    *)
(*                                                                         *)
(* Text (tokens, patterns, selectors, paths) is a sequence of one-character *)
(* strings, so that splitting, stripping and matching are computed and not *)
(* assumed.  A directory in the file system is a sequence of path          *)
(* components, each component a text.                                      *)
(***************************************************************************)
EXTENDS Integers, Sequences, FiniteSets, TLC

VARIABLES
    start_dir,         \* the working directory expand_arguments was called in
    args,              \* the argument list given to expand_arguments
    config,            \* Expander.config
    cwd,               \* the process working directory (absolute)
    pc,                \* position in the program
    argi,              \* index of the argument the for loop is at
    transformed_args,  \* expand_arguments' output vector
    pat,               \* result of parse_pattern for the current token
    selector_group,    \* Option<SelectorGroup> of the current token
    paths,             \* candidate list filled by fetch_matches
    fm,                \* locals of the running fetch_matches call
    first_call,        \* expand_pattern's first_call flag
    expanded,          \* value returned by expand_pattern / select
    err,               \* error returned to the caller ("none" when Ok)
    errAt,             \* the function whose error it is
    menuCalls,         \* selector_menu invocations: <<paths, first_call>>
    hostRan            \* the host program was spawned with these arguments

vars == <<start_dir, args, config, cwd, pc, argi, transformed_args, pat, selector_group,
          paths, fm, first_call, expanded, err, errAt, menuCalls, hostRan>>

(***************************************************************************)
(* Bounds of the model.                                                    *)
(***************************************************************************)
MaxPieces == 4      \* pieces a generated pattern token is made of
MaxSelTokens == 3   \* comma-separated tokens of a generated selector string
MaxCands == 3       \* length of a generated candidate list
MaxArgs == 2        \* length of the argument list
MaxMenuCalls == 2   \* selector_menu invocations per run

(***************************************************************************)
(* Text helpers (Rust str methods).                                        *)
(***************************************************************************)
Min(S) == CHOOSE x \in S : \A y \in S : x <= y

Max(a, b) == IF a >= b THEN a ELSE b

Drop(s, n) == SubSeq(s, n + 1, Len(s))

StartsWith(s, p) == Len(p) <= Len(s) /\ SubSeq(s, 1, Len(p)) = p

EndsWith(s, p) == Len(p) <= Len(s) /\ SubSeq(s, Len(s) - Len(p) + 1, Len(s)) = p

\* str::find: index of the first occurrence of p in s, 0 when there is none
Find(s, p) ==
    LET I == {i \in 1..(Len(s) - Len(p) + 1) : SubSeq(s, i, i + Len(p) - 1) = p}
    IN  IF I = {} THEN 0 ELSE Min(I)

\* str::split(char): always at least one piece
RECURSIVE Split(_, _)
Split(s, c) ==
    LET i == Find(s, <<c>>)
    IN  IF i = 0 THEN <<s>> ELSE <<SubSeq(s, 1, i - 1)>> \o Split(Drop(s, i), c)

\* a variant that splits at the last occurrence (rsplitn)
SplitN2_last(s, delim) ==
    LET I == {i \in 1..(Len(s) - Len(delim) + 1) : SubSeq(s, i, i + Len(delim) - 1) = delim}
        i == IF I = {} THEN 0 ELSE CHOOSE x \in I : \A y \in I : y <= x
    IN  IF i = 0 THEN <<s>>
        ELSE <<SubSeq(s, 1, i - 1), Drop(s, i + Len(delim) - 1)>>

\* str::splitn(2, delim)
SplitN2(s, delim) ==
    LET i == Find(s, delim)
    IN  IF i = 0 THEN <<s>>
        ELSE <<SubSeq(s, 1, i - 1), Drop(s, i + Len(delim) - 1)>>

\* str::trim
RECURSIVE TrimStart(_)
TrimStart(s) == IF s # <<>> /\ Head(s) = " " THEN TrimStart(Tail(s)) ELSE s

RECURSIVE TrimEnd(_)
TrimEnd(s) ==
    IF s # <<>> /\ s[Len(s)] = " " THEN TrimEnd(SubSeq(s, 1, Len(s) - 1)) ELSE s

Trim(s) == TrimEnd(TrimStart(s))

RECURSIVE Concat(_)
Concat(ss) == IF ss = <<>> THEN <<>> ELSE Head(ss) \o Concat(Tail(ss))

(***************************************************************************)
(* Results: Ok(v) and Err(e); an error carries a default value so that     *)
(* results of one function are comparable.                                 *)
(***************************************************************************)
Ok(v) == [ok |-> TRUE, err |-> "none", val |-> v]

Err(e, dflt) == [ok |-> FALSE, err |-> e, val |-> dflt]

None == <<>>

Some(x) == <<x>>

(***************************************************************************)
(* Selectors (enum Selector, struct SelectorGroup).                        *)
(***************************************************************************)
All == [kind |-> "All", off |-> 0, re |-> <<>>]

FromFront(n) == [kind |-> "FromFront", off |-> n, re |-> <<>>]

FromBack(n) == [kind |-> "FromBack", off |-> n, re |-> <<>>]

Regex(r) == [kind |-> "Regex", off |-> 0, re |-> r]

DigitVal == ("0" :> 0) @@ ("1" :> 1) @@ ("2" :> 2) @@ ("3" :> 3) @@ ("9" :> 9)

IsDigits(s) == s # <<>> /\ \A i \in 1..Len(s) : s[i] \in DOMAIN DigitVal

RECURSIVE DecimalValue(_)
DecimalValue(s) ==
    IF s = <<>> THEN 0
    ELSE 10 * DecimalValue(SubSeq(s, 1, Len(s) - 1)) + DigitVal[s[Len(s)]]

\* str::parse::<isize>: an optional sign followed by one or more digits
ParseIsize(s) ==
    IF s # <<>> /\ Head(s) \in {"-", "+"}
    THEN IF IsDigits(Tail(s))
         THEN Ok(IF Head(s) = "-" THEN 0 - DecimalValue(Tail(s))
                 ELSE DecimalValue(Tail(s)))
         ELSE Err("InvalidSelector", 0)
    ELSE IF IsDigits(s) THEN Ok(DecimalValue(s)) ELSE Err("InvalidSelector", 0)

\* a variant whose negative selectors are not shifted to 0-based offsets
ParseOneSelector_unshifted(selector) ==
    IF selector = <<"a">> THEN Ok(All)
    ELSE IF StartsWith(selector, <<"/">>) THEN Ok(Regex(Tail(selector)))
    ELSE IF selector = <<"l">> THEN Ok(FromBack(0))
    ELSE LET index == ParseIsize(selector)
         IN  IF ~index.ok THEN Err("InvalidSelector", All)
             ELSE IF index.val = 0 THEN Err("ZeroSelector", All)
             ELSE IF index.val < 0 THEN Ok(FromBack(0 - index.val))
             ELSE Ok(FromFront(index.val - 1))

\* the body of parse_selectors' for loop, for one token
ParseOneSelector(selector) ==
    IF selector = <<"a">> THEN Ok(All)
    ELSE IF StartsWith(selector, <<"/">>) THEN Ok(Regex(Tail(selector)))
    ELSE IF selector = <<"l">> THEN Ok(FromBack(0))
    ELSE LET index == ParseIsize(selector)
         IN  IF ~index.ok THEN Err("InvalidSelector", All)
             ELSE IF index.val = 0 THEN Err("ZeroSelector", All)
             ELSE IF index.val < 0 THEN Ok(FromBack((0 - index.val) - 1))
             ELSE Ok(FromFront(index.val - 1))

RECURSIVE ParseSelectorTokens(_, _)
ParseSelectorTokens(toks, selectors) ==
    IF toks = <<>> THEN Ok(selectors)
    ELSE LET r == ParseOneSelector(Head(toks))
         IN  IF ~r.ok THEN Err(r.err, <<>>)
             ELSE ParseSelectorTokens(Tail(toks), Append(selectors, r.val))

parse_selectors(raw_selectors) ==
    ParseSelectorTokens(Split(Trim(raw_selectors), ","), <<>>)

(***************************************************************************)
(* The regex crate, for the patterns the model feeds it: literal           *)
(* characters, '.' (any character) and groups.  Regex::new fails on an     *)
(* unclosed or unopened group; is_match is an unanchored search.           *)
(***************************************************************************)
RECURSIVE GroupDepthOk(_, _)
GroupDepthOk(r, depth) ==
    IF r = <<>> THEN depth = 0
    ELSE IF Head(r) = "(" THEN GroupDepthOk(Tail(r), depth + 1)
    ELSE IF Head(r) = ")" THEN depth > 0 /\ GroupDepthOk(Tail(r), depth - 1)
    ELSE GroupDepthOk(Tail(r), depth)

RegexNew(r) == GroupDepthOk(r, 0)

RegexIsMatch(r, v) ==
    LET lit == SelectSeq(r, LAMBDA c : c \notin {"(", ")"})
    IN  \E j \in 0..(Len(v) - Len(lit)) :
            \A i \in 1..Len(lit) : lit[i] = "." \/ lit[i] = v[j + i]

(***************************************************************************)
(* SelectorGroup::select and SelectorGroup::highest_index.                 *)
(***************************************************************************)
\* the range check of FromFront and FromBack
OffsetOutOfRange(offset, len) == offset >= len

\* a variant that counts from the front
FromBackPosition_front(offset, len) == offset + 1

\* the position (1-based) FromBack(offset) reads
FromBackPosition(offset, len) == (len - 1 - offset) + 1

\* the position (1-based) FromFront(offset) reads
FromFrontPosition(offset) == offset + 1

RECURSIVE SelectLoop(_, _, _)
SelectLoop(selectors, ps, selected_paths) ==
    IF selectors = <<>> THEN Ok(selected_paths)
    ELSE IF ps = <<>> THEN Err("NoPaths", <<>>)
    ELSE LET selector == Head(selectors)
             rest == Tail(selectors)
         IN  CASE selector.kind = "All" ->
                    SelectLoop(rest, ps, selected_paths \o ps)
               [] selector.kind = "FromFront" ->
                    IF OffsetOutOfRange(selector.off, Len(ps))
                    THEN Err("OutOfRange", <<>>)
                    ELSE SelectLoop(rest, ps,
                            Append(selected_paths, ps[FromFrontPosition(selector.off)]))
               [] selector.kind = "FromBack" ->
                    IF OffsetOutOfRange(selector.off, Len(ps))
                    THEN Err("OutOfRange", <<>>)
                    ELSE SelectLoop(rest, ps,
                            Append(selected_paths,
                                   ps[FromBackPosition(selector.off, Len(ps))]))
               [] OTHER ->
                    IF ~RegexNew(selector.re) THEN Err("Regex", <<>>)
                    ELSE SelectLoop(rest, ps,
                            selected_paths \o
                            SelectSeq(ps, LAMBDA v : RegexIsMatch(selector.re, v)))

\* a variant that refuses an empty selection
select_strict(selectors, ps) ==
    LET r == SelectLoop(selectors, ps, <<>>)
    IN  IF r.ok /\ r.val = <<>> THEN Err("NoMatch", <<>>) ELSE r

select(selectors, ps) == SelectLoop(selectors, ps, <<>>)

RECURSIVE HighestIndexLoop(_, _)
HighestIndexLoop(selectors, highest) ==
    IF selectors = <<>> THEN Some(highest)
    ELSE IF Head(selectors).kind = "FromFront"
         THEN HighestIndexLoop(Tail(selectors), Max(Head(selectors).off, highest))
         ELSE None

highest_index(selectors) == HighestIndexLoop(selectors, 0)

(***************************************************************************)
(* Expander::parse_pattern.                                                *)
(***************************************************************************)
Delim == <<"/", "*", "*", "/">>

NoPat == [repository_root |-> FALSE, entry_point |-> <<>>,
          glob_pattern |-> <<>>, selectors |-> None]

\* pattern.split('^'): the first piece, and the second when there is one
SplitSelectors(pattern) ==
    LET pieces == Split(pattern, "^")
    IN  <<pieces[1], IF Len(pieces) >= 2 THEN Some(pieces[2]) ELSE None>>

\* pattern.splitn(2, "/**/") and the match on its one or two pieces
SplitEntryPoint(pattern) ==
    LET pieces == SplitN2(pattern, Delim)
    IN  IF Len(pieces) = 1 THEN <<<<".">>, pieces[1]>>
        ELSE <<IF pieces[1] = <<>> THEN <<"/">> ELSE pieces[1],
               IF pieces[2] = <<>> THEN <<"*", "/">> ELSE pieces[2]>>

parse_pattern(token) ==
    LET pattern == Drop(token, 1)
    IN  IF pattern = <<>> THEN Err("EmptyPattern", NoPat)
        ELSE LET repository_root == StartsWith(pattern, <<"%">>)
                 stripped == IF repository_root THEN Drop(pattern, 1)
                             ELSE IF StartsWith(pattern, <<"\\">>) THEN Drop(pattern, 1)
                             ELSE pattern
                 ps == SplitSelectors(stripped)
                 eg == SplitEntryPoint(ps[1])
             IN  Ok([repository_root |-> repository_root, entry_point |-> eg[1],
                     glob_pattern |-> eg[2], selectors |-> ps[2]])

(***************************************************************************)
(* The file system the expander reads: a directory is a sequence of        *)
(* components.  /w is a git repository; /w/d/b is an entry whose metadata  *)
(* cannot be read (DirEntry::metadata returns Err for it); d names a       *)
(* directory in /w and a file in /w/e; the name of the directory /w/\@q    *)
(* begins with a backslash and an '@'.                                     *)
(***************************************************************************)
W == <<"w">>
D == <<"d">>
E == <<"e">>
F == <<"f">>
G == <<"g">>
B == <<"b">>
H == <<"h">>
Q == <<"\\", "@", "q">>
DotGit == <<".", "g", "i", "t">>
DotSvn == <<".", "s", "v", "n">>

Dirs == {<<>>, <<W>>, <<W, DotGit>>, <<W, D>>, <<W, E>>, <<W, Q>>}

Files == {<<W, F>>, <<W, DotGit, F>>, <<W, D, F>>, <<W, D, G>>, <<W, D, B>>,
          <<W, E, D>>, <<W, Q, H>>}

Nodes == Dirs \cup Files

BadMetadata == {<<W, D, B>>}

\* read_dir order of each directory
FsChildren ==
    (<<>> :> <<W>>) @@ (<<W>> :> <<DotGit, F, D, E, Q>>) @@ (<<W, DotGit>> :> <<F>>)
    @@ (<<W, D>> :> <<F, G, B>>) @@ (<<W, E>> :> <<D>>)
    @@ (<<W, Q>> :> <<H>>)

Home == <<"/", "w">>

Parent(dir) == SubSeq(dir, 1, Len(dir) - 1)

\* the text of an absolute directory (PathBuf of env::current_dir)
RECURSIVE AbsText(_)
AbsText(dir) ==
    IF dir = <<>> THEN <<"/">>
    ELSE (IF Len(dir) = 1 THEN <<>> ELSE AbsText(Parent(dir)))
         \o <<"/">> \o dir[Len(dir)]

\* path resolution by the operating system: None when the path names nothing
RECURSIVE ResolveFrom(_, _)
ResolveFrom(at, comps) ==
    IF comps = <<>> THEN Some(at)
    ELSE IF at \notin Dirs THEN None
    ELSE LET c == Head(comps)
         IN  IF c = <<>> \/ c = <<".">> THEN ResolveFrom(at, Tail(comps))
             ELSE IF c = <<".", ".">>
                  THEN ResolveFrom(IF at = <<>> THEN at ELSE Parent(at), Tail(comps))
             ELSE IF Append(at, c) \in Nodes
                  THEN ResolveFrom(Append(at, c), Tail(comps))
             ELSE None

Resolve(base, text) ==
    IF text = <<>> THEN None
    ELSE ResolveFrom(IF Head(text) = "/" THEN <<>> ELSE base, Split(text, "/"))

\* Path::exists
PathExists(base, text) == Resolve(base, text) # None

\* fs::metadata(path).is_dir(), for a path that exists
PathIsDir(base, text) == Resolve(base, text)[1] \in Dirs

\* PathBuf::join
PathJoin(a, b) ==
    IF b # <<>> /\ Head(b) = "/" THEN b
    ELSE IF a = <<>> \/ a[Len(a)] = "/" THEN a \o b
    ELSE a \o <<"/">> \o b

\* shellexpand::tilde
Tilde(text) ==
    IF text = <<"~">> \/ StartsWith(text, <<"~", "/">>) THEN Home \o Tail(text)
    ELSE text

RECURSIVE RepositoryRootFrom(_)
RepositoryRootFrom(dir) ==
    IF Append(dir, DotGit) \in Nodes \/ Append(dir, DotSvn) \in Nodes THEN Ok(dir)
    ELSE IF dir = <<>> THEN Err("NotARepository", <<>>)
    ELSE RepositoryRootFrom(Parent(dir))

get_repository_root(current_dir) == RepositoryRootFrom(current_dir)

(***************************************************************************)
(* walkdir: WalkDir::new(".").into_iter().filter_entry(matcher), in        *)
(* pre-order; an entry the matcher refuses is not descended into.          *)
(***************************************************************************)
\* the closure `matcher` of fetch_matches, on an entry's file name
Matcher(file_name, search_hidden) ==
    IF search_hidden THEN TRUE
    ELSE ~(StartsWith(file_name, <<".">>) /\ file_name # <<".">>
           /\ file_name # <<".", ".">>)

RECURSIVE WalkEntries(_, _)
RECURSIVE WalkChildren(_, _, _)
WalkEntries(node, search_hidden) ==
    <<node>> \o (IF node \in Dirs
                 THEN WalkChildren(node, FsChildren[node], search_hidden)
                 ELSE <<>>)

WalkChildren(dir, names, search_hidden) ==
    IF names = <<>> THEN <<>>
    ELSE (IF Matcher(Head(names), search_hidden)
          THEN WalkEntries(Append(dir, Head(names)), search_hidden)
          ELSE <<>>)
         \o WalkChildren(dir, Tail(names), search_hidden)

\* DirEntry::path of an entry, for the walk rooted at "." in directory base
RECURSIVE EntryPath(_, _)
EntryPath(base, node) ==
    IF node = base THEN <<".">>
    ELSE EntryPath(base, Parent(node)) \o <<"/">> \o node[Len(node)]

(***************************************************************************)
(* globset: GlobBuilder::new(p).literal_separator(true), for patterns made *)
(* of literal characters, '*' and the '/**/' and trailing '/**' forms.     *)
(***************************************************************************)
RECURSIVE GlobIsMatch(_, _)
GlobIsMatch(g, s) ==
    IF g = <<>> THEN s = <<>>
    ELSE IF StartsWith(g, Delim)
         THEN s # <<>> /\ Head(s) = "/"
              /\ \E k \in 1..Len(s) : s[k] = "/" /\ GlobIsMatch(Drop(g, 4), Drop(s, k))
    ELSE IF g = <<"/", "*", "*">> THEN s # <<>> /\ Head(s) = "/"
    ELSE IF Head(g) = "*"
         THEN \E k \in 0..Len(s) :
                /\ \A i \in 1..k : s[i] # "/"
                /\ GlobIsMatch(Tail(g), Drop(s, k))
    ELSE s # <<>> /\ Head(s) = Head(g) /\ GlobIsMatch(Tail(g), Tail(s))

\* "./**/".to_string() + pattern
AnchoredGlob(pattern) == <<".">> \o Delim \o pattern

(***************************************************************************)
(* Expander::fetch_matches, in the pieces its steps use.                   *)
(***************************************************************************)
NoFm == [pattern |-> <<>>, match_with_files |-> FALSE, entry_point |-> None,
         cwd |-> None, quit_after_index |-> None, current_index |-> 0,
         walker |-> <<>>, entered_cwd |-> <<>>, returned_early |-> FALSE]

\* a glob pattern that ends with '/' matches directories only
DirectoryOnly(pattern) == EndsWith(pattern, <<"/">>)

\* a variant without the check
ConfigConflict_unchecked(pattern, match_with_dirs) == FALSE

\* ... which the configuration may forbid
ConfigConflict(pattern, match_with_dirs) == DirectoryOnly(pattern) /\ ~match_with_dirs

\* the pattern the glob is built from
StrippedPattern(pattern) ==
    IF DirectoryOnly(pattern) THEN SubSeq(pattern, 1, Len(pattern) - 1) ELSE pattern

\* the entry point as a PathBuf, after tilde expansion and the repository root
EntryPoint(from_repository_root, entry_point, current_dir) ==
    LET expanded_entry == Tilde(entry_point)
        root == get_repository_root(current_dir)
    IN  IF from_repository_root
        THEN IF ~root.ok THEN Err(root.err, <<>>)
             ELSE IF expanded_entry # <<".">> /\ expanded_entry # <<"/">>
                  THEN Ok(PathJoin(AbsText(root.val), expanded_entry))
                  ELSE Ok(AbsText(root.val))
        ELSE Ok(expanded_entry)

QuitAfterIndex(group) == IF group = None THEN None ELSE highest_index(group[1])

\* the type filter of the walk
Matched(match_with_dirs, match_with_files, is_dir, is_file) ==
    (match_with_dirs /\ (match_with_files \/ is_dir)) \/ (match_with_files /\ is_file)

\* the early return of the walk, taken right after a match was pushed
QuitNow(quit_after_index, current_index) == quit_after_index = current_index

\* the string pushed for a matched entry
ResultPath(entry_point, path_name, is_dir) ==
    LET stripped == IF StartsWith(path_name, <<".", "/">>) THEN Drop(path_name, 2)
                    ELSE path_name
    IN  PathJoin(entry_point, stripped) \o (IF is_dir THEN <<"/">> ELSE <<>>)

(***************************************************************************)
(* Expander::apply_post_transforms.                                        *)
(***************************************************************************)
RECURSIVE StripTrailingSlashes(_)
StripTrailingSlashes(text) ==
    IF Len(text) > 1 /\ text[Len(text)] = "/"
    THEN StripTrailingSlashes(SubSeq(text, 1, Len(text) - 1))
    ELSE text

\* Path::parent
PathParent(text) ==
    LET p == StripTrailingSlashes(text)
        slashes == {i \in 1..Len(p) : p[i] = "/"}
    IN  IF p = <<>> \/ p = <<"/">> THEN None
        ELSE IF slashes = {} THEN Some(<<>>)
        ELSE LET last == CHOOSE i \in slashes : \A j \in slashes : j <= i
             IN  Some(StripTrailingSlashes(SubSeq(p, 1, last)))

TransformPath(path, current_dir) ==
    IF ~PathExists(current_dir, path) THEN Err("Io", <<>>)
    ELSE IF PathIsDir(current_dir, path) THEN Ok(path)
    ELSE IF PathParent(path) # None THEN Ok(PathParent(path)[1])
    ELSE Err("NoParent", <<>>)

RECURSIVE TransformAll(_, _, _)
TransformAll(ps, current_dir, done) ==
    IF ps = <<>> THEN Ok(done)
    ELSE LET r == TransformPath(Head(ps), current_dir)
         IN  IF ~r.ok THEN Err(r.err, <<>>)
             ELSE TransformAll(Tail(ps), current_dir, Append(done, r.val))

apply_post_transforms(transform_files_to_dirs, expanded_pattern, current_dir) ==
    IF transform_files_to_dirs THEN TransformAll(expanded_pattern, current_dir, <<>>)
    ELSE Ok(expanded_pattern)

(***************************************************************************)
(* Inputs of expand_arguments.                                             *)
(***************************************************************************)
Tokens ==
    { <<"@", "g">>,                                   \* one match
      <<"@", "f">>,                                   \* several matches
      <<"@", "z">>,                                   \* no match
      <<"@", "f", "^", "1">>,
      <<"@", "f", "^", "2", ",", "1">>,
      <<"@", "f", "^", "-", "1">>,
      <<"@", "f", "^", "a">>,
      <<"@", "f", "^", "/", "d">>,
      <<"@", "f", "^", "x">>,
      <<"@", "g", "^", "2">>,
      <<"@", "g", "^", "1", "^", "2">>,
      <<"@", "z", "^", "1">>,
      <<"@", "*", "^", "1">>,
      <<"@", "*", "^", "3">>,
      <<"@", "d", "/", "*", "*", "/", "f", "^", "1">>,
      <<"@", "d", "/", "*", "*", "/", "b">>,
      <<"@", "/", "*", "*", "/", "w", "^", "1">>,
      <<"@", "f", "/", "*", "*", "/", "g">>,
      <<"@", "d">>,
      <<"@", "d", "/">>,
      <<"@", "d", "/", "^", "a">>,
      <<"@", "%">>,
      <<"@", "%", "d", "/", "*", "*", "/", "g">>,
      <<"@">>,
      <<"x">>,
      <<"\\", "@", "f">>,
      <<"@", "\\", "\\", "@", "q", "/", "*", "*", "/", "h">> }

\* the arguments that follow the first one
FollowTokens ==
    { <<"@", "f">>, <<"@", "%">>,
      <<"@", "d", "/", "*", "*", "/", "f", "^", "1">>, <<"x">> }

FollowLists == UNION {[1..n -> FollowTokens] : n \in 0..(MaxArgs - 1)}

ArgLists == {<<>>} \cup {<<t>> \o rest : t \in Tokens, rest \in FollowLists}

\* a configuration that matches neither files nor directories is refused by the host
Configs ==
    {c \in [match_with_dirs : BOOLEAN, match_with_files : BOOLEAN,
            transform_files_to_dirs : BOOLEAN, search_hidden : BOOLEAN] :
        c.match_with_dirs \/ c.match_with_files}

StartDirs == {<<W>>, <<W, D>>}

\* what the selector_menu callback may return
MenuAnswers ==
    { <<"1">>, <<"2">>, <<"9">>, <<"x">>, <<"0">>, <<"a">>, <<"/", "(">> }

(***************************************************************************)
(* expand_arguments, expand_pattern and fetch_matches as steps.            *)
(***************************************************************************)
Init ==
    /\ args \in ArgLists
    /\ config \in Configs
    /\ cwd \in StartDirs
    /\ start_dir = cwd
    /\ pc = "args"
    /\ argi = 1
    /\ transformed_args = <<>>
    /\ pat = NoPat
    /\ selector_group = None
    /\ paths = <<>>
    /\ fm = NoFm
    /\ first_call = TRUE
    /\ expanded = <<>>
    /\ err = "none"
    /\ errAt = "none"
    /\ menuCalls = <<>>
    /\ hostRan = FALSE

\* a variant that leaves the escape marker in place
Unescape_kept(arg) == arg

\* expand_arguments: `if arg.starts_with("\\@") { arg[1..] } else { arg }`
Unescape(arg) == IF StartsWith(arg, <<"\\", "@">>) THEN Drop(arg, 1) ELSE arg

\* expand_arguments: an argument that does not start with '@'
PassArgument ==
    /\ pc = "args" /\ argi <= Len(args)
    /\ ~StartsWith(args[argi], <<"@">>)
    /\ transformed_args' = Append(transformed_args, Unescape(args[argi]))
    /\ argi' = argi + 1
    /\ UNCHANGED <<start_dir, args, config, cwd, pc, pat, selector_group, paths, fm,
                   first_call, expanded, err, errAt, menuCalls, hostRan>>

\* a variant that goes on after an error
Propagate_swallowed(ok, continue_at) == continue_at

\* the `?` of expand_arguments: an Err returns from the call at once
Propagate(ok, continue_at) == IF ok THEN continue_at ELSE "failed"

\* expand_arguments: the loop is over
ReturnArguments ==
    /\ pc = "args" /\ argi > Len(args)
    /\ pc' = "ok"
    /\ UNCHANGED <<start_dir, args, config, cwd, argi, transformed_args, pat, selector_group,
                   paths, fm, first_call, expanded, err, errAt, menuCalls, hostRan>>

\* expand_pattern: parse_pattern, then parse_selectors, then the call of fetch_matches
ExpandPatternParse ==
    /\ pc = "args" /\ argi <= Len(args)
    /\ StartsWith(args[argi], <<"@">>)
    /\ LET p == parse_pattern(args[argi])
           g == IF p.ok /\ p.val.selectors # None
                THEN parse_selectors(p.val.selectors[1]) ELSE Ok(<<>>)
       IN  /\ pc' = Propagate(p.ok /\ g.ok, "fetch")
           /\ err' = IF ~p.ok THEN p.err ELSE g.err
           /\ errAt' = IF ~p.ok THEN "parse_pattern"
                       ELSE IF ~g.ok THEN "parse_selectors" ELSE "none"
           /\ pat' = p.val
           /\ selector_group' = IF p.ok /\ g.ok /\ p.val.selectors # None
                                THEN Some(g.val) ELSE None
    /\ paths' = <<>>
    /\ fm' = NoFm
    /\ UNCHANGED <<start_dir, args, config, cwd, argi, transformed_args, first_call, expanded,
                   menuCalls, hostRan>>

\* fetch_matches: the empty pattern and the trailing '/'
FetchChecks ==
    /\ pc = "fetch"
    /\ LET pattern == pat.glob_pattern
           root == get_repository_root(cwd)
           rootPath == pattern = <<>> /\ pat.repository_root /\ root.ok
           e == IF pattern = <<>>
                THEN IF pat.repository_root
                     THEN (IF root.ok THEN "none" ELSE root.err)
                     ELSE "NoGlob"
                ELSE IF ConfigConflict(pattern, config.match_with_dirs)
                     THEN "ConfigConflict" ELSE "none"
       IN  /\ err' = e
           /\ errAt' = IF e = "none" THEN "none" ELSE "fetch_matches"
           /\ pc' = IF e # "none" THEN "failed"
                    ELSE IF rootPath THEN "fetched" ELSE "enter"
           /\ paths' = IF rootPath THEN Append(paths, AbsText(root.val)) ELSE paths
           /\ fm' = [NoFm EXCEPT
                        !.entered_cwd = cwd,
                        !.pattern = IF pattern = <<>> THEN <<>>
                                    ELSE StrippedPattern(pattern),
                        !.match_with_files =
                            IF pattern # <<>> /\ DirectoryOnly(pattern) THEN FALSE
                            ELSE config.match_with_files]
    /\ UNCHANGED <<start_dir, args, config, cwd, argi, transformed_args, pat, selector_group,
                   first_call, expanded, menuCalls, hostRan>>

\* fetch_matches: resolve the entry point, go there, start the walk
FetchEnter ==
    /\ pc = "enter"
    /\ LET ep == EntryPoint(pat.repository_root, pat.entry_point, cwd)
           target == IF ep.ok THEN Resolve(cwd, ep.val) ELSE None
           e == IF ~ep.ok THEN ep.err
                ELSE IF target = None THEN "NoEntryPoint"
                ELSE IF target[1] \notin Dirs THEN "Io"
                ELSE "none"
       IN  /\ err' = e
           /\ errAt' = IF e = "none" THEN "none" ELSE "fetch_matches"
           /\ pc' = IF e = "none" THEN "walk" ELSE "failed"
           /\ cwd' = IF e = "none" THEN target[1] ELSE cwd
           /\ fm' = IF e = "none"
                    THEN [fm EXCEPT
                            !.entry_point = Some(ep.val),
                            !.cwd = Some(cwd),
                            !.quit_after_index = QuitAfterIndex(selector_group),
                            !.current_index = 0,
                            !.walker = WalkEntries(target[1], config.search_hidden)]
                    ELSE IF ep.ok THEN [fm EXCEPT !.entry_point = Some(ep.val)]
                    ELSE fm
    /\ UNCHANGED <<start_dir, args, config, argi, transformed_args, pat, selector_group, paths,
                   first_call, expanded, menuCalls, hostRan>>

\* fetch_matches: one iteration of the for loop over the walker
WalkStep ==
    /\ pc = "walk" /\ fm.walker # <<>>
    /\ LET e == Head(fm.walker)
           path_name == EntryPath(cwd, e)
           hit == GlobIsMatch(AnchoredGlob(fm.pattern), path_name)
           bad == hit /\ e \in BadMetadata
           matched == hit /\ ~bad
                      /\ Matched(config.match_with_dirs, fm.match_with_files,
                                 e \in Dirs, e \in Files)
           counting == matched /\ fm.quit_after_index # None
           quit == counting /\ QuitNow(fm.quit_after_index[1], fm.current_index)
       IN  /\ paths' = IF matched
                       THEN Append(paths, ResultPath(fm.entry_point[1], path_name,
                                                     e \in Dirs))
                       ELSE paths
           /\ pc' = IF bad THEN "failed" ELSE IF quit THEN "fetched" ELSE "walk"
           /\ err' = IF bad THEN "Io" ELSE "none"
           /\ errAt' = IF bad THEN "fetch_matches" ELSE "none"
           /\ fm' = [fm EXCEPT
                        !.walker = Tail(@),
                        !.current_index = IF counting /\ ~quit THEN @ + 1 ELSE @,
                        !.returned_early = quit]
    /\ UNCHANGED <<start_dir, args, config, cwd, argi, transformed_args, pat, selector_group,
                   first_call, expanded, menuCalls, hostRan>>

\* fetch_matches: the walk is over; head back to the original directory
WalkEnd ==
    /\ pc = "walk" /\ fm.walker = <<>>
    /\ cwd' = fm.cwd[1]
    /\ pc' = "fetched"
    /\ UNCHANGED <<start_dir, args, config, argi, transformed_args, pat, selector_group, paths,
                   fm, first_call, expanded, err, errAt, menuCalls, hostRan>>

\* a variant that never sees an empty candidate list
NoCandidates_never(ps) == FALSE

\* expand_pattern: `if paths.is_empty()`
NoCandidates(ps) == ps = <<>>

\* a variant without the one-match shortcut
NeedsMenu_always(group, ps) == group = None

\* a variant that asks even when the token carries selectors
NeedsMenu_regardless(group, ps) == Len(ps) # 1

\* expand_pattern: no selector group and not exactly one candidate
NeedsMenu(group, ps) == group = None /\ Len(ps) # 1

\* expand_pattern, after fetch_matches returned Ok
ExpandPatternSelect ==
    /\ pc = "fetched"
    /\ LET r == IF NoCandidates(paths) THEN Err("NoMatch", <<>>)
                ELSE IF selector_group # None THEN select(selector_group[1], paths)
                ELSE Ok(paths)
           menu == ~NoCandidates(paths) /\ NeedsMenu(selector_group, paths)
       IN  /\ pc' = IF menu THEN "menu" ELSE IF r.ok THEN "transform" ELSE "failed"
           /\ err' = IF menu THEN "none" ELSE r.err
           /\ errAt' = IF menu \/ r.ok THEN "none"
                       ELSE IF NoCandidates(paths) THEN "expand_pattern" ELSE "select"
           /\ expanded' = IF menu THEN <<>> ELSE r.val
           /\ first_call' = TRUE
    /\ UNCHANGED <<start_dir, args, config, cwd, argi, transformed_args, pat, selector_group,
                   paths, fm, menuCalls, hostRan>>

\* expand_pattern: one iteration of the loop around selector_menu
SelectorMenu ==
    /\ pc = "menu"
    /\ Len(menuCalls) < MaxMenuCalls
    /\ \E option \in MenuAnswers :
         LET g == parse_selectors(option)
             selected_paths == IF g.ok THEN select(g.val, paths) ELSE Err(g.err, <<>>)
         IN  /\ menuCalls' = Append(menuCalls,
                                    [arg |-> argi, paths |-> paths,
                                     first_call |-> first_call, option |-> option])
             /\ first_call' = FALSE
             /\ pc' = IF ~g.ok THEN "failed"
                      ELSE IF selected_paths.ok THEN "transform" ELSE "menu"
             /\ err' = IF ~g.ok THEN g.err ELSE "none"
             /\ errAt' = IF ~g.ok THEN "menu" ELSE "none"
             /\ expanded' = IF g.ok /\ selected_paths.ok THEN selected_paths.val
                            ELSE expanded
    /\ UNCHANGED <<start_dir, args, config, cwd, argi, transformed_args, pat, selector_group,
                   paths, fm, hostRan>>

\* the callback ends the process instead of returning
SelectorMenuAbort ==
    /\ pc = "menu"
    /\ pc' = "aborted"
    /\ UNCHANGED <<start_dir, args, config, cwd, argi, transformed_args, pat, selector_group,
                   paths, fm, first_call, expanded, err, errAt, menuCalls, hostRan>>

\* a variant that puts the new block in front
VecAppend_front(vec, other) == other \o vec

\* Vec::append
VecAppend(vec, other) == vec \o other

\* expand_arguments: apply_post_transforms and append
TransformAndAppend ==
    /\ pc = "transform"
    /\ LET r == apply_post_transforms(config.transform_files_to_dirs, expanded, cwd)
       IN  /\ pc' = Propagate(r.ok, "args")
           /\ err' = r.err
           /\ errAt' = IF r.ok THEN "none" ELSE "apply_post_transforms"
           /\ transformed_args' = IF r.ok THEN VecAppend(transformed_args, r.val)
                                  ELSE transformed_args
           /\ argi' = IF r.ok THEN argi + 1 ELSE argi
    /\ UNCHANGED <<start_dir, args, config, cwd, pat, selector_group, paths, fm, first_call,
                   expanded, menuCalls, hostRan>>

\* the host: run the program with the transformed arguments
HostSpawn ==
    /\ pc = "ok"
    /\ pc' = "spawned"
    /\ hostRan' = TRUE
    /\ UNCHANGED <<start_dir, args, config, cwd, argi, transformed_args, pat, selector_group,
                   paths, fm, first_call, expanded, err, errAt, menuCalls>>

\* the host: an argument could not be transformed; exit(1)
HostExit ==
    /\ pc = "failed"
    /\ pc' = "exited"
    /\ UNCHANGED <<start_dir, args, config, cwd, argi, transformed_args, pat, selector_group,
                   paths, fm, first_call, expanded, err, errAt, menuCalls, hostRan>>

Next ==
    \/ PassArgument
    \/ ReturnArguments
    \/ ExpandPatternParse
    \/ FetchChecks
    \/ FetchEnter
    \/ WalkStep
    \/ WalkEnd
    \/ ExpandPatternSelect
    \/ SelectorMenu
    \/ SelectorMenuAbort
    \/ TransformAndAppend
    \/ HostSpawn
    \/ HostExit

Spec == Init /\ [][Next]_vars

(***************************************************************************)
(* parse_pattern on its own: every token made of a few pieces.             *)
(***************************************************************************)
PatPieces ==
    { <<"%">>, <<"\\">>, <<"a">>, <<"b">>, <<"/">>, <<"^">>, Delim }

ParseTokens ==
    { <<"@">> \o Concat(ps) : ps \in UNION {[1..n -> PatPieces] : n \in 0..MaxPieces} }

InitParse ==
    /\ args \in {<<t>> : t \in ParseTokens}
    /\ config = [match_with_dirs |-> TRUE, match_with_files |-> TRUE,
                 transform_files_to_dirs |-> FALSE, search_hidden |-> FALSE]
    /\ cwd = <<W>>
    /\ start_dir = <<W>>
    /\ pc = "parse_pattern"
    /\ argi = 1
    /\ transformed_args = <<>>
    /\ pat = NoPat
    /\ selector_group = None
    /\ paths = <<>>
    /\ fm = NoFm
    /\ first_call = TRUE
    /\ expanded = <<>>
    /\ err = "none"
    /\ errAt = "none"
    /\ menuCalls = <<>>
    /\ hostRan = FALSE

ParsePatternCall ==
    /\ pc = "parse_pattern"
    /\ LET p == parse_pattern(args[1])
       IN  /\ pat' = p.val
           /\ err' = p.err
           /\ errAt' = IF p.ok THEN "none" ELSE "parse_pattern"
    /\ pc' = "parsed"
    /\ UNCHANGED <<start_dir, args, config, cwd, argi, transformed_args, selector_group, paths,
                   fm, first_call, expanded, menuCalls, hostRan>>

SpecParse == InitParse /\ [][ParsePatternCall]_vars

(***************************************************************************)
(* parse_selectors and select on their own: every selector string of a few *)
(* tokens, applied to candidate lists of every length up to MaxCands.      *)
(***************************************************************************)
SelTokens ==
    { <<"a">>, <<"l">>, <<"1">>, <<"2">>, <<"3">>, <<"-", "1">>, <<"-", "3">>,
      <<"3", "3">>, <<"0">>, <<"-", "0">>, <<"+", "1">>, <<"x">>, <<>>,
      <<" ", "1">>, <<"/", "f", "f">>, <<"/", "(">> }

RECURSIVE JoinComma(_)
JoinComma(toks) ==
    IF Len(toks) = 1 THEN toks[1] ELSE toks[1] \o <<",">> \o JoinComma(Tail(toks))

SelStrings ==
    { JoinComma(ts) : ts \in UNION {[1..n -> SelTokens] : n \in 1..MaxSelTokens} }

\* the i-th candidate: "./f", "./ff", ...
Cand(i) == <<".", "/">> \o [j \in 1..i |-> "f"]

CandLists == { [i \in 1..n |-> Cand(i)] : n \in 0..MaxCands }

InitSel ==
    /\ args \in {<<raw>> : raw \in SelStrings}
    /\ paths \in CandLists
    /\ config = [match_with_dirs |-> TRUE, match_with_files |-> TRUE,
                 transform_files_to_dirs |-> FALSE, search_hidden |-> FALSE]
    /\ cwd = <<W>>
    /\ start_dir = <<W>>
    /\ pc = "parse_selectors"
    /\ argi = 1
    /\ transformed_args = <<>>
    /\ pat = NoPat
    /\ selector_group = None
    /\ fm = NoFm
    /\ first_call = TRUE
    /\ expanded = <<>>
    /\ err = "none"
    /\ errAt = "none"
    /\ menuCalls = <<>>
    /\ hostRan = FALSE

ParseSelectorsCall ==
    /\ pc = "parse_selectors"
    /\ LET g == parse_selectors(args[1])
       IN  /\ selector_group' = IF g.ok THEN Some(g.val) ELSE None
           /\ err' = g.err
           /\ errAt' = IF g.ok THEN "none" ELSE "parse_selectors"
    /\ pc' = "selectors"
    /\ UNCHANGED <<start_dir, args, config, cwd, argi, transformed_args, pat, paths, fm,
                   first_call, expanded, menuCalls, hostRan>>

SelectCall ==
    /\ pc = "selectors" /\ selector_group # None
    /\ LET r == select(selector_group[1], paths)
       IN  /\ expanded' = r.val
           /\ err' = r.err
           /\ errAt' = IF r.ok THEN "none" ELSE "select"
    /\ pc' = "selected"
    /\ UNCHANGED <<start_dir, args, config, cwd, argi, transformed_args, pat, selector_group,
                   paths, fm, first_call, menuCalls, hostRan>>

NextSel == ParseSelectorsCall \/ SelectCall

SpecSel == InitSel /\ [][NextSel]_vars

(***************************************************************************)
(* Reference definitions the properties below are stated with.             *)
(***************************************************************************)
\* the candidate list of a walk that visits every entry (no early return)
RECURSIVE FullWalkLoop(_, _, _)
FullWalkLoop(entries, base, found) ==
    IF entries = <<>> THEN Ok(found)
    ELSE LET e == Head(entries)
             path_name == EntryPath(base, e)
             hit == GlobIsMatch(AnchoredGlob(fm.pattern), path_name)
         IN  IF hit /\ e \in BadMetadata THEN Err("Io", <<>>)
             ELSE FullWalkLoop(Tail(entries), base,
                    IF hit /\ Matched(config.match_with_dirs, fm.match_with_files,
                                      e \in Dirs, e \in Files)
                    THEN Append(found, ResultPath(fm.entry_point[1], path_name,
                                                  e \in Dirs))
                    ELSE found)

\* the running fetch_matches call went to its entry point
Entered == fm.cwd # None

\* the directory the walk of the running call is rooted at
WalkBase == Resolve(fm.cwd[1], fm.entry_point[1])[1]

\* every match in the tree below the entry point of the running call
FullWalk == FullWalkLoop(WalkEntries(WalkBase, config.search_hidden), WalkBase, <<>>)

\* fetch_matches returned (Ok, or Err from the walk) after going to its entry point
FetchReturned ==
    Entered /\ (pc = "fetched" \/ (pc = "failed" /\ errAt = "fetch_matches"))

\* expand_pattern returned for the current token, its fetch having gone to the entry point
ExpandReturned ==
    Entered /\ (pc = "transform"
                \/ (pc = "failed" /\ errAt \in {"fetch_matches", "expand_pattern",
                                                "select", "menu"}))

\* selector_menu was invoked for the current token
MenuInvoked == \E i \in 1..Len(menuCalls) : menuCalls[i].arg = argi

Count(text, c) == Cardinality({i \in 1..Len(text) : text[i] = c})

(***************************************************************************)
(* expand_arguments as a function of the argument list, the directory it   *)
(* is called in and the answers of selector_menu: each call runs to its    *)
(* return in one evaluation.  The properties below compare the steps       *)
(* above with it.                                                          *)
(***************************************************************************)
Outcome(status, e, v, dir) == [status |-> status, err |-> e, val |-> v, cwd |-> dir]

\* the for loop over the walker, with its early return
RECURSIVE WalkFrom(_, _, _, _, _, _, _, _)
WalkFrom(entries, base, pattern, files, entry, quit, index, found) ==
    IF entries = <<>> THEN Outcome("ok", "none", found, "restored")
    ELSE LET e == Head(entries)
             path_name == EntryPath(base, e)
             hit == GlobIsMatch(<<".", "/", "*", "*", "/">> \o pattern, path_name)
             matched == /\ hit
                        /\ \/ config.match_with_dirs /\ (files \/ e \in Dirs)
                           \/ files /\ e \in Files
             found2 == IF matched
                       THEN Append(found, ResultPath(entry, path_name, e \in Dirs))
                       ELSE found
             counting == matched /\ quit # None
         IN  IF hit /\ e \in BadMetadata THEN Outcome("failed", "Io", <<>>, "left")
             ELSE IF counting /\ quit[1] = index
                  THEN Outcome("ok", "none", found2, "left")
             ELSE WalkFrom(Tail(entries), base, pattern, files, entry, quit,
                           IF counting THEN index + 1 ELSE index, found2)

\* fetch_matches called in directory dir: the candidates, or the error, and
\* the working directory it leaves
FetchFrom(p, group, dir) ==
    LET pattern == p.glob_pattern
        directories == pattern # <<>> /\ pattern[Len(pattern)] = "/"
        root == get_repository_root(dir)
        ep == EntryPoint(p.repository_root, p.entry_point, dir)
        target == Resolve(dir, ep.val)
    IN  IF pattern = <<>>
        THEN IF ~p.repository_root THEN Outcome("failed", "NoGlob", <<>>, dir)
             ELSE IF root.ok THEN Outcome("ok", "none", <<AbsText(root.val)>>, dir)
             ELSE Outcome("failed", root.err, <<>>, dir)
        ELSE IF directories /\ ~config.match_with_dirs
             THEN Outcome("failed", "ConfigConflict", <<>>, dir)
        ELSE IF ~ep.ok THEN Outcome("failed", ep.err, <<>>, dir)
        ELSE IF target = None THEN Outcome("failed", "NoEntryPoint", <<>>, dir)
        ELSE IF target[1] \notin Dirs THEN Outcome("failed", "Io", <<>>, dir)
        ELSE LET w == WalkFrom(WalkEntries(target[1], config.search_hidden), target[1],
                               IF directories THEN SubSeq(pattern, 1, Len(pattern) - 1)
                               ELSE pattern,
                               IF directories THEN FALSE ELSE config.match_with_files,
                               ep.val,
                               IF group = None THEN None ELSE highest_index(group[1]),
                               0, <<>>)
             IN  Outcome(w.status, w.err, w.val,
                         IF w.cwd = "restored" THEN dir ELSE target[1])

\* the loop around selector_menu, fed with the answers the callback gave;
\* "pending" when the answers run out before the loop returns
RECURSIVE MenuFrom(_, _, _)
MenuFrom(candidates, answers, dir) ==
    IF answers = <<>> THEN Outcome("pending", "none", <<>>, dir)
    ELSE LET g == parse_selectors(Head(answers))
             r == select(g.val, candidates)
         IN  IF ~g.ok THEN Outcome("failed", g.err, <<>>, dir)
             ELSE IF r.ok THEN Outcome("ok", "none", r.val, dir)
             ELSE MenuFrom(candidates, Tail(answers), dir)

\* expand_pattern called in directory dir
ExpandFrom(token, dir, answers) ==
    LET p == parse_pattern(token)
        g == IF p.ok /\ p.val.selectors # None
             THEN parse_selectors(p.val.selectors[1]) ELSE Ok(<<>>)
        group == IF p.val.selectors # None THEN Some(g.val) ELSE None
        f == FetchFrom(p.val, group, dir)
        r == select(g.val, f.val)
    IN  IF ~p.ok THEN Outcome("failed", p.err, <<>>, dir)
        ELSE IF ~g.ok THEN Outcome("failed", g.err, <<>>, dir)
        ELSE IF f.status # "ok" THEN f
        ELSE IF f.val = <<>> THEN Outcome("failed", "NoMatch", <<>>, f.cwd)
        ELSE IF group # None
             THEN (IF r.ok THEN Outcome("ok", "none", r.val, f.cwd)
                   ELSE Outcome("failed", r.err, <<>>, f.cwd))
        ELSE IF Len(f.val) = 1 THEN Outcome("ok", "none", f.val, f.cwd)
        ELSE MenuFrom(f.val, answers, f.cwd)

\* expand_pattern and apply_post_transforms: the block one '@' argument contributes
BlockFrom(token, dir, answers) ==
    LET x == ExpandFrom(token, dir, answers)
        t == apply_post_transforms(config.transform_files_to_dirs, x.val, x.cwd)
    IN  IF x.status # "ok" THEN x
        ELSE IF t.ok THEN Outcome("ok", "none", t.val, x.cwd)
        ELSE Outcome("failed", t.err, <<>>, x.cwd)

\* what selector_menu answered for the i-th argument, in order
AnswersFor(i) ==
    LET calls == SelectSeq(menuCalls, LAMBDA c : c.arg = i)
    IN  [k \in 1..Len(calls) |-> calls[k].option]

\* expand_arguments from its i-th argument on: the blocks of the arguments it
\* went through, the argument it stopped at, and how
RECURSIVE RewriteFrom(_, _, _, _)
RewriteFrom(list, i, dir, blocks) ==
    IF i > Len(list)
    THEN [status |-> "ok", err |-> "none", blocks |-> blocks, cwd |-> dir, at |-> i]
    ELSE IF list[i] # <<>> /\ Head(list[i]) = "@"
         THEN LET b == BlockFrom(list[i], dir, AnswersFor(i))
              IN  IF b.status = "ok"
                  THEN RewriteFrom(list, i + 1, b.cwd, Append(blocks, b.val))
                  ELSE [status |-> b.status, err |-> b.err, blocks |-> blocks,
                        cwd |-> b.cwd, at |-> i]
    ELSE RewriteFrom(list, i + 1, dir,
                     Append(blocks,
                            <<IF Len(list[i]) >= 2 /\ list[i][1] = "\\" /\ list[i][2] = "@"
                              THEN Tail(list[i]) ELSE list[i]>>))

Rewrite == RewriteFrom(args, 1, start_dir, <<>>)

(***************************************************************************)
(* C1.  fetch_matches restores the working directory on every exit path:   *)
(* whenever a call that went to its entry point has returned (full walk,   *)
(* early return, or error during the walk), the working directory is the   *)
(* one the call began in.  The code does not do this.                      *)
(***************************************************************************)
C1_CwdRestoredOnReturn == FetchReturned => cwd = fm.entered_cwd

(***************************************************************************)
(* C2.  In the disambiguation loop, an answer of selector_menu that does   *)
(* not parse, or whose selection fails, returns no error: the callback is  *)
(* asked again with first_call = false.  The code returns the parse error. *)
(***************************************************************************)
C2_BadAnswerAsksAgain ==
    \A i \in 1..Len(menuCalls) :
        LET c == menuCalls[i]
            g == parse_selectors(c.option)
            bad == ~g.ok \/ ~select(g.val, c.paths).ok
        IN  bad =>
              IF i < Len(menuCalls)
              THEN menuCalls[i + 1].arg = c.arg /\ menuCalls[i + 1].first_call = FALSE
              ELSE pc \in {"menu", "aborted"} /\ err = "none" /\ first_call = FALSE

(***************************************************************************)
(* C3.  As claimed: whenever the tree holds exactly one match of the       *)
(* pattern, expand_pattern returns exactly that path and selector_menu is  *)
(* not invoked.  A selector on the token makes this fail.                  *)
(***************************************************************************)
OneMatch == Entered /\ FullWalk.ok /\ Len(FullWalk.val) = 1

C3_OneMatchReturnsIt ==
    (ExpandReturned /\ OneMatch) =>
        pc = "transform" /\ expanded = FullWalk.val /\ ~MenuInvoked

(***************************************************************************)
(* C3, amended.  Whenever the tree holds exactly one match of the pattern, *)
(* selector_menu is not invoked; when the token has no selector,           *)
(* expand_pattern returns exactly that one path.                           *)
(***************************************************************************)
C3_OneMatchNoSelectorReturnsIt ==
    (pc \in {"menu", "aborted", "transform", "failed", "exited"} /\ OneMatch) =>
        /\ ~MenuInvoked
        /\ pc \notin {"menu", "aborted"}
        /\ (ExpandReturned /\ pat.selectors = None) =>
              pc = "transform" /\ expanded = FullWalk.val

C3_Witness ==
    /\ pc = "transform" /\ OneMatch /\ pat.selectors = None
    /\ expanded = <<<<".", "/", "d", "/", "g">>>>

(***************************************************************************)
(* C4.  When fetch_matches returns no candidate, expand_pattern fails with *)
(* the no-match error, with or without a selector, selector_menu is not    *)
(* invoked, and the host program is never run.                             *)
(***************************************************************************)
C4_NoCandidatesFails ==
    /\ [][(pc = "fetched" /\ paths = <<>>) =>
            (pc' = "failed" /\ err' = "NoMatch" /\ menuCalls' = menuCalls)]_vars
    /\ [](err = "NoMatch" => (~hostRan /\ pc \in {"failed", "exited"}))

C4_Witness ==
    pc = "exited" /\ err = "NoMatch" /\ paths = <<>> /\ selector_group # None

(***************************************************************************)
(* C5.  parse_pattern fails for every token with more than one '^'.  The   *)
(* code ignores what follows the second '^' and accepts the token.         *)
(***************************************************************************)
C5_SecondCaretRejected ==
    (pc = "parsed" /\ Count(args[1], "^") > 1) => err # "none"

(***************************************************************************)
(* C6.  parse_pattern splits the path+glob portion at the first '/**/'     *)
(* only: without one the entry point is '.' and the glob the whole         *)
(* portion; with it at position 0 the entry point is '/', otherwise the    *)
(* text before it; the glob is the text after it (further '/**/' kept) or  *)
(* '*/' when that is empty; a leading '%' sets repository_root and is      *)
(* stripped; the text after the single '^' is the raw selector string.     *)
(***************************************************************************)
C6_SplitsAtFirstDelimiter ==
    (pc = "parsed" /\ Len(args[1]) > 1 /\ Count(args[1], "^") <= 1) =>
        LET body == Tail(args[1])
            text == IF Head(body) \in {"%", "\\"} THEN Tail(body) ELSE body
            carets == {i \in 1..Len(text) : text[i] = "^"}
            caret == IF carets = {} THEN Len(text) + 1 ELSE CHOOSE i \in carets : TRUE
            portion == SubSeq(text, 1, caret - 1)
            occ == {i \in 1..(Len(portion) - 3) :
                        /\ portion[i] = "/" /\ portion[i + 1] = "*"
                        /\ portion[i + 2] = "*" /\ portion[i + 3] = "/"}
        IN  /\ err = "none"
            /\ pat.repository_root = (Head(body) = "%")
            /\ pat.selectors = IF carets = {} THEN None
                               ELSE Some(SubSeq(text, caret + 1, Len(text)))
            /\ occ = {} => (pat.entry_point = <<".">> /\ pat.glob_pattern = portion)
            /\ occ # {} =>
                 LET first == CHOOSE i \in occ : \A j \in occ : i <= j
                     after == SubSeq(portion, first + 4, Len(portion))
                 IN  /\ pat.entry_point = IF first = 1 THEN <<"/">>
                                          ELSE SubSeq(portion, 1, first - 1)
                     /\ pat.glob_pattern = IF after = <<>> THEN <<"*", "/">> ELSE after

C6_Witness ==
    /\ pc = "parsed" /\ err = "none"
    /\ pat.entry_point = <<"a">>
    /\ pat.glob_pattern = <<"b">> \o Delim

RECURSIVE Horner(_, _)
Horner(digits, acc) ==
    IF digits = <<>> THEN acc
    ELSE Horner(Tail(digits), 10 * acc + DigitVal[Head(digits)])

Digits(tok) == IF tok # <<>> /\ Head(tok) \in {"-", "+"} THEN Tail(tok) ELSE tok

IsInteger(tok) ==
    Digits(tok) # <<>> /\ \A i \in 1..Len(Digits(tok)) : Digits(tok)[i] \in DOMAIN DigitVal

IntegerOf(tok) ==
    IF Head(tok) = "-" THEN 0 - Horner(Digits(tok), 0) ELSE Horner(Digits(tok), 0)

\* the selector a token stands for, None when it stands for none
Expected(tok) ==
    IF tok = <<"a">> THEN Some(All)
    ELSE IF tok = <<"l">> THEN Some(FromBack(0))
    ELSE IF tok # <<>> /\ Head(tok) = "/" THEN Some(Regex(Tail(tok)))
    ELSE IF IsInteger(tok) /\ IntegerOf(tok) > 0 THEN Some(FromFront(IntegerOf(tok) - 1))
    ELSE IF IsInteger(tok) /\ IntegerOf(tok) < 0
         THEN Some(FromBack((0 - IntegerOf(tok)) - 1))
    ELSE None

\* the k-th comma-separated token of a text
TokenAt(text, k) ==
    LET P == {i \in 1..Len(text) : text[i] = ","}
        pos(n) == IF n = 0 THEN 0
                  ELSE IF n > Cardinality(P) THEN Len(text) + 1
                  ELSE CHOOSE i \in P : Cardinality({j \in P : j < i}) = n - 1
    IN  SubSeq(text, pos(k - 1) + 1, pos(k) - 1)

(***************************************************************************)
(* C7.  parse_selectors maps each comma-separated token, in order, to one  *)
(* selector: 'a' to All, 'l' to FromBack(0) (as '-1'), an integer n > 0 to *)
(* FromFront(n-1), an integer n < 0 to FromBack(|n|-1), '/text' to a       *)
(* Regex; '0' fails with the zero error, every other token as invalid.  *)
(***************************************************************************)
C7_TokensMapToSelectors ==
    (pc \in {"selectors", "selected"}) =>
        LET text == Trim(args[1])
            n == Count(text, ",") + 1
            exp == [k \in 1..n |-> Expected(TokenAt(text, k))]
        IN  /\ Expected(<<"l">>) = Expected(<<"-", "1">>)
            /\ Expected(<<"0">>) = None
            /\ IF \A k \in 1..n : exp[k] # None
               THEN /\ selector_group = Some([k \in 1..n |-> exp[k][1]])
                    /\ pc = "selectors" => err = "none"
               ELSE LET k0 == CHOOSE k \in 1..n :
                                  exp[k] = None /\ \A j \in 1..(k - 1) : exp[j] # None
                    IN  /\ selector_group = None
                        /\ pc = "selectors"
                        /\ err = IF IsInteger(TokenAt(text, k0)) THEN "ZeroSelector"
                                 ELSE "InvalidSelector"

C7_Witness ==
    /\ pc = "selectors"
    /\ selector_group = Some(<<FromFront(0), FromBack(0), All>>)

ApplyOne(sel, list) ==
    CASE sel.kind = "All" -> list
      [] sel.kind = "FromFront" -> <<list[sel.off + 1]>>
      [] sel.kind = "FromBack" -> <<list[Len(list) - sel.off]>>
      [] OTHER -> SelectSeq(list, LAMBDA v : RegexIsMatch(sel.re, v))

RECURSIVE ConcatApply(_, _)
ConcatApply(group, list) ==
    IF group = <<>> THEN <<>>
    ELSE ApplyOne(Head(group), list) \o ConcatApply(Tail(group), list)

OutOfRangeAt(group, list, k) ==
    group[k].kind \in {"FromFront", "FromBack"} /\ group[k].off >= Len(list)

NoCompileAt(group, k) == group[k].kind = "Regex" /\ ~RegexNew(group[k].re)

(***************************************************************************)
(* C8.  As claimed: select on a non-empty list returns the concatenation,  *)
(* in selector order, of each selector applied to the original list, and   *)
(* fails with the out-of-range error, returning nothing, exactly when some *)
(* FromFront or FromBack offset is not below the candidate count.  A Regex *)
(* selector that does not compile fails first with another error.          *)
(***************************************************************************)
C8_OutOfRangeExactly ==
    (pc = "selected" /\ paths # <<>>) =>
        LET group == selector_group[1]
            bad == \E k \in 1..Len(group) : OutOfRangeAt(group, paths, k)
        IN  /\ (err = "OutOfRange") <=> bad
            /\ bad => expanded = <<>>
            /\ err = "none" => expanded = ConcatApply(group, paths)

(***************************************************************************)
(* C8, amended.  select on a non-empty list returns that concatenation     *)
(* unless some selector fails; the first failing selector decides the      *)
(* error: out-of-range for a FromFront or FromBack offset not below the    *)
(* candidate count, the regex error for a Regex that does not compile; in  *)
(* both cases nothing is returned.                                         *)
(***************************************************************************)
C8_FirstFailureDecides ==
    (pc = "selected" /\ paths # <<>>) =>
        LET group == selector_group[1]
            fails == {k \in 1..Len(group) :
                        OutOfRangeAt(group, paths, k) \/ NoCompileAt(group, k)}
        IN  IF fails = {}
            THEN err = "none" /\ expanded = ConcatApply(group, paths)
            ELSE LET k0 == CHOOSE k \in fails : \A j \in fails : k <= j
                 IN  /\ expanded = <<>>
                     /\ err = IF NoCompileAt(group, k0) THEN "Regex" ELSE "OutOfRange"

C8_Witness ==
    /\ pc = "selected" /\ Len(paths) = 3
    /\ selector_group = Some(<<FromBack(0), FromBack(2)>>)
    /\ expanded = <<Cand(3), Cand(1)>>

\* the selector group of the current token holds FromFront selectors only
OnlyFromFront ==
    /\ selector_group # None
    /\ \A k \in 1..Len(selector_group[1]) : selector_group[1][k].kind = "FromFront"

\* what expand_pattern returned for the current token
Observed == IF pc = "transform" THEN Ok(expanded) ELSE Err(err, <<>>)

\* what walking the whole tree and then selecting returns
WalkAllThenSelect ==
    IF ~FullWalk.ok THEN Err(FullWalk.err, <<>>)
    ELSE IF FullWalk.val = <<>> THEN Err("NoMatch", <<>>)
    ELSE LET r == select(selector_group[1], FullWalk.val)
         IN  IF r.ok THEN Ok(r.val) ELSE Err(r.err, <<>>)

\* the walk of the running call is never cut short without a FromFront-only group
NeverCutShortOtherwise ==
    /\ fm.returned_early => OnlyFromFront
    /\ (pc = "fetched" /\ Entered /\ ~OnlyFromFront) => fm.walker = <<>>

(***************************************************************************)
(* C9.  As claimed: with a group of FromFront selectors only, expansion    *)
(* with the early return of the walk gives the same paths or the same      *)
(* error as walking the whole tree and then selecting; with any other      *)
(* group, or none, the walk is never cut short.  A matching entry behind   *)
(* the stopping point whose metadata cannot be read makes the two differ:  *)
(* the early walk succeeds where the whole walk fails.                     *)
(***************************************************************************)
C9_EarlyWalkSameAsFullWalk ==
    /\ (ExpandReturned /\ OnlyFromFront) => Observed = WalkAllThenSelect
    /\ NeverCutShortOtherwise

(***************************************************************************)
(* C10.  A glob pattern ending in '/' makes fetch_matches return           *)
(* directories only, whatever match_with_files says; when match_with_dirs  *)
(* is false the expansion of such a pattern fails with the configuration   *)
(* conflict error before the entry point is resolved, before the working   *)
(* directory is changed and before anything is walked.                     *)
(***************************************************************************)
C10_TrailingSlashDirectoriesOnly ==
    /\ (pc = "fetched" /\ Entered /\ EndsWith(pat.glob_pattern, <<"/">>)) =>
          /\ ~fm.match_with_files
          /\ \A i \in 1..Len(paths) :
                /\ EndsWith(paths[i], <<"/">>)
                /\ Resolve(fm.cwd[1], paths[i]) # None
                /\ Resolve(fm.cwd[1], paths[i])[1] \in Dirs
    /\ (/\ EndsWith(pat.glob_pattern, <<"/">>) /\ ~config.match_with_dirs
        /\ pc # "fetch" /\ errAt # "parse_selectors") =>
          /\ pc \in {"failed", "exited"}
          /\ err = "ConfigConflict" /\ errAt = "fetch_matches"
          /\ fm.entry_point = None /\ fm.cwd = None /\ fm.walker = <<>>
          /\ cwd = fm.entered_cwd
          /\ paths = <<>> /\ ~hostRan

C10_Witness ==
    /\ pc = "failed" /\ err = "ConfigConflict"
    /\ config.match_with_files /\ cwd = <<W>>

(***************************************************************************)
(* C11.  Every path appended to the output for an '@' argument that names  *)
(* a directory (seen from the directory the expansion began in) ends with  *)
(* '/'.  The repository root pushed for the empty pattern and the parent   *)
(* written by transform_files_to_dirs carry no '/'.                        *)
(***************************************************************************)
C11_DirectoriesEndWithSeparator ==
    [][(pc = "transform" /\ pc' = "args") =>
          \A k \in (Len(transformed_args) + 1)..Len(transformed_args') :
              LET path == transformed_args'[k]
              IN  (PathExists(fm.entered_cwd, path) /\ PathIsDir(fm.entered_cwd, path))
                    => EndsWith(path, <<"/">>)]_vars

\* the working directory when expand_arguments reaches its i-th argument
DirBefore(i) == RewriteFrom(SubSeq(args, 1, i - 1), 1, start_dir, <<>>).cwd

Escaped(arg) == Len(arg) >= 2 /\ arg[1] = "\\" /\ arg[2] = "@"

Arobase(arg) == arg # <<>> /\ arg[1] = "@"

\* the block the i-th argument contributes to the output
BlockOf(i) ==
    IF Arobase(args[i]) THEN BlockFrom(args[i], DirBefore(i), AnswersFor(i)).val
    ELSE IF Escaped(args[i]) THEN <<Tail(args[i])>>
    ELSE <<args[i]>>

(***************************************************************************)
(* C12.  When expand_arguments succeeds its output is the concatenation,   *)
(* in argument order, of one block per argument: the whole expansion of an *)
(* argument that starts with '@', and the argument itself, unchanged, when *)
(* it starts with neither '@' nor '\@'.                                    *)
(***************************************************************************)
C12_OutputIsBlocksInOrder ==
    (pc \in {"ok", "spawned"}) =>
        /\ transformed_args = Concat([i \in 1..Len(args) |-> BlockOf(i)])
        /\ \A i \in 1..Len(args) :
              (~Arobase(args[i]) /\ ~Escaped(args[i])) => BlockOf(i) = <<args[i]>>

C12_Witness ==
    /\ pc = "ok" /\ Len(args) = 2
    /\ Arobase(args[1]) /\ args[2] = <<"x">>
    /\ Len(BlockOf(1)) = 2
    /\ transformed_args = BlockOf(1) \o <<args[2]>>

(***************************************************************************)
(* C13.  An argument that starts with '\@' is passed through with the one  *)
(* leading backslash removed, as one output argument, in one step: it is   *)
(* not parsed as a pattern, nothing is fetched or walked, the working      *)
(* directory stays, and selector_menu is not invoked.                      *)
(***************************************************************************)
C13_EscapedArobasePassedThrough ==
    [][(pc = "args" /\ argi <= Len(args) /\ Escaped(args[argi])) =>
          /\ transformed_args' = Append(transformed_args, Tail(args[argi]))
          /\ Head(Tail(args[argi])) = "@"
          /\ pc' = "args" /\ argi' = argi + 1
          /\ UNCHANGED <<cwd, pat, selector_group, paths, fm, expanded, err, menuCalls>>]_vars

C13_Witness ==
    /\ pc = "ok" /\ args = <<<<"\\", "@", "f">>>>
    /\ transformed_args = <<<<"@", "f">>>>
    /\ cwd = start_dir /\ fm = NoFm /\ menuCalls = <<>>

(***************************************************************************)
(* C14.  expand_arguments fails fast: an error of the expansion or of the  *)
(* post-transform of the i-th argument ends the call with that error, the  *)
(* host gets no argument list and runs nothing, and from then on nothing   *)
(* is parsed, fetched, walked or offered to selector_menu.                 *)
(***************************************************************************)
C14_FailsFast ==
    /\ [](err # "none" => pc \in {"failed", "exited"})
    /\ []((pc \in {"failed", "exited"}) =>
            /\ err # "none" /\ ~hostRan
            /\ Rewrite.status = "failed" /\ Rewrite.err = err /\ Rewrite.at = argi
            /\ \A k \in 1..Len(menuCalls) : menuCalls[k].arg <= argi)
    /\ [][(pc \in {"failed", "exited"}) =>
            /\ pc' = "exited"
            /\ UNCHANGED <<argi, transformed_args, pat, selector_group, paths, fm,
                           cwd, err, menuCalls, hostRan>>]_vars

C14_Witness ==
    /\ pc = "exited" /\ errAt = "apply_post_transforms"
    /\ Len(args) = 2 /\ argi = 1 /\ Arobase(args[2])
    /\ transformed_args = <<>> /\ ~hostRan

(***************************************************************************)
(* C15.  Rewriting is idempotent: when expand_arguments returned a list in *)
(* which no argument starts with '@', expand_arguments applied to that     *)
(* list returns it unchanged.  A returned path that starts with '\@' loses *)
(* its backslash the second time.                                          *)
(***************************************************************************)
C15_RewriteIsIdempotent ==
    (/\ pc \in {"ok", "spawned"}
     /\ \A k \in 1..Len(transformed_args) : ~Arobase(transformed_args[k])) =>
        LET again == RewriteFrom(transformed_args, 1, cwd, <<>>)
        IN  again.status = "ok" /\ Concat(again.blocks) = transformed_args

(***************************************************************************)
(* C16.  With transform_files_to_dirs set, every selected path that is not *)
(* a directory is replaced in the output by its parent and every selected  *)
(* directory is kept, also after a walk that stopped early; with the flag  *)
(* unset the selected paths are appended unchanged.  After an early return *)
(* the paths are looked up from the entry point and the step fails.        *)
(***************************************************************************)
C16_FilesBecomeParents ==
    [][(pc = "transform") =>
          /\ pc' = "args"
          /\ transformed_args' = transformed_args \o
                [k \in 1..Len(expanded) |->
                    IF ~config.transform_files_to_dirs THEN expanded[k]
                    ELSE IF PathIsDir(fm.entered_cwd, expanded[k]) THEN expanded[k]
                    ELSE PathParent(expanded[k])[1]]]_vars

(***************************************************************************)
(* C17.  For a token that carries a selector string the string is parsed   *)
(* before fetch_matches is called (a parse error means nothing was         *)
(* fetched), selector_menu is never invoked for that token, and a parse    *)
(* error or a selection error ends the call instead of being retried.      *)
(***************************************************************************)
C17_SelectorsParsedFirstNeverAsked ==
    /\ []((pat.selectors # None /\ pc \in {"fetch", "enter", "walk", "fetched"}) =>
            /\ parse_selectors(pat.selectors[1]).ok
            /\ selector_group = Some(parse_selectors(pat.selectors[1]).val))
    /\ [](errAt = "parse_selectors" =>
            /\ pc \in {"failed", "exited"}
            /\ fm = NoFm /\ paths = <<>> /\ cwd = DirBefore(argi))
    /\ [](errAt = "select" => pc \in {"failed", "exited"})
    /\ [](\A k \in 1..Len(menuCalls) :
            parse_pattern(args[menuCalls[k].arg]).val.selectors = None)
    /\ [][(pc = "fetched" /\ pat.selectors # None) =>
            /\ pc' \in {"transform", "failed"}
            /\ menuCalls' = menuCalls
            /\ pc' = "failed" => err' \in {"NoMatch", "OutOfRange", "Regex"}]_vars

C17_Witness ==
    /\ pc = "exited" /\ errAt = "select" /\ err = "OutOfRange"
    /\ pat.selectors # None /\ paths # <<>> /\ menuCalls = <<>>

\* the current token's selectors are regular expressions that match no candidate
NoRegexMatch ==
    /\ selector_group # None /\ paths # <<>>
    /\ \A k \in 1..Len(selector_group[1]) :
          /\ selector_group[1][k].kind = "Regex"
          /\ RegexNew(selector_group[1][k].re)
          /\ \A j \in 1..Len(paths) : ~RegexIsMatch(selector_group[1][k].re, paths[j])

(***************************************************************************)
(* C18.  A Regex selector that matches none of a non-empty candidate list  *)
(* is no error: expand_pattern returns an empty selection, and the token   *)
(* contributes no argument to the output of expand_arguments, which goes   *)
(* on with the next argument.                                              *)
(***************************************************************************)
C18_EmptyRegexSelectionSucceeds ==
    /\ [][(pc = "fetched" /\ NoRegexMatch) =>
            (pc' = "transform" /\ expanded' = <<>> /\ err' = "none")]_vars
    /\ [][(pc = "transform" /\ expanded = <<>>) =>
            /\ pc' = "args" /\ err' = "none"
            /\ argi' = argi + 1 /\ transformed_args' = transformed_args]_vars
    /\ []((pc \in {"ok", "spawned"} /\ Len(args) = 1 /\ NoRegexMatch) =>
            transformed_args = <<>>)

C18_Witness ==
    /\ pc = "ok" /\ Len(args) = 1 /\ NoRegexMatch
    /\ transformed_args = <<>> /\ err = "none"

(***************************************************************************)
(* C19.  What expand_pattern returns for the '@' argument at position i is *)
(* what it returns for that token alone, called in the directory           *)
(* expand_arguments was called in.  After a preceding argument whose walk  *)
(* left the working directory at its entry point it is not.                *)
(***************************************************************************)
C19_IndependentOfPrecedingArguments ==
    (/\ pc \in {"transform", "failed"}
     /\ errAt \in {"none", "parse_pattern", "parse_selectors", "fetch_matches",
                   "expand_pattern", "select", "menu"}) =>
        LET alone == ExpandFrom(args[argi], start_dir, AnswersFor(argi))
        IN  IF pc = "transform"
            THEN alone.status = "ok" /\ alone.val = expanded
            ELSE alone.status = "failed" /\ alone.err = err

====
